---- MODULE Spec2Model ----
(***************************************************************************)
(* Model of the reflex command line entry point (src/reflex/reflex.py):    *)
(* the `deploy` command (negotiation of the deployment key, validation of  *)
(* the parameters, upload, status polling, cleanup), the `login` command   *)
(* (token reuse, browser flow, token fetch, validation, persist) and the   *)
(* `run` command (selection of the roles, ports, supervised launch).       *)
(* Calls into reflex.utils.hosting / console are the environment: their    *)
(* results are chosen nondeterministically among the outcomes the command  *)
(* code distinguishes (a value, or an exception).                          *)
(***************************************************************************)
EXTENDS Integers, Sequences, FiniteSets, TLC

VARIABLES
    \* ---- deploy: parameters (typer options, lines 418-462)
    interactive, key, app_name, regions, envs,
    \* ---- deploy: locals
    pc, app_prefix, overwrite_existing, key_candidate, api_url, deploy_url,
    processed_envs, backend_up, frontend_up,
    \* ---- deploy: the remote calls made so far and what the command reported
    prepare_calls, upload_calls, upload_args, backend_polls, frontend_polls,
    cleanup_calls, drain_waits, printed, exit_code,
    \* ---- deploy: record of the naming dialogue (lines 517-542)
    first_kind, suggested_key, first_input, first_confirm, entered_names,
    \* ---- deploy: the attempt on which each side first answered up (0: never)
    backend_first_up, frontend_first_up,
    \* ---- deploy: whether a hosting.clean_up call raised; the reply / the
    \* first prior deployment of the first prepare-deploy response (<< >>:
    \* none); the key the naming loop got confirmed ("": none)
    cleanup_raised, first_reply, first_existing, confirmed_key,
    \* ---- deploy: the app_prefix of the first prepare-deploy response
    first_app_prefix,
    \* ---- login: locals, local config and remote calls
    lpc, token, code, using_existing_token, token_valid, config_token,
    browser_opens, fetch_calls, validate_calls, save_calls, delete_calls,
    lprinted, lexit,
    \* ---- login: the token the local config held when the command began
    initial_config_token,
    \* ---- run: options (lines 117-136), locals, the persistent config
    \* (config_*_port is str() of the configured port) and the ports
    \* something is running on
    rpc, env, frontend, backend, frontend_port, backend_port,
    config_frontend_port, config_backend_port, occupied, skip_compile,
    hook_registered, commands,
    \* ---- run: the launched processes, the calling-thread command, the
    \* order of the starts, the shutting-down messages, the exit status
    children, main, started, shutdown_msgs, interrupted, run_exit,
    \* ---- run: the ports asked for and configured when the command began,
    \* whether the port was in use when line 157 / 160 was reached, the
    \* negotiator calls, the config writes
    requested_ports, configured_ports, port_checks, negotiator_calls,
    persist_writes,
    \* ---- run: the --frontend-only / --backend-only flags as given
    option_flags

deployVars ==
    << interactive, key, app_name, regions, envs, pc, app_prefix,
       overwrite_existing, key_candidate, api_url, deploy_url, processed_envs,
       backend_up, frontend_up, prepare_calls, upload_calls, upload_args,
       backend_polls, frontend_polls, cleanup_calls, drain_waits, printed,
       exit_code, first_kind, suggested_key, first_input, first_confirm,
       entered_names, backend_first_up, frontend_first_up, cleanup_raised,
       first_reply, first_existing, confirmed_key, first_app_prefix >>

loginVars ==
    << lpc, token, code, using_existing_token, token_valid, config_token,
       browser_opens, fetch_calls, validate_calls, save_calls, delete_calls,
       lprinted, lexit, initial_config_token >>

runVars ==
    << rpc, env, frontend, backend, frontend_port, backend_port,
       config_frontend_port, config_backend_port, occupied, skip_compile,
       hook_registered, commands, children, main, started, shutdown_msgs,
       interrupted, run_exit, requested_ports, configured_ports, port_checks,
       negotiator_calls, persist_writes, option_flags >>

vars == << deployVars, loginVars, runVars >>

----------------------------------------------------------------------------
(* Bounds of the model *)

\* the env prompt is answered while the list of environment entries
\* (command line + prompt) is shorter than this
MaxEnvs == 1
\* most prepare-deploy calls of one run (the naming loop itself has no cap)
MaxPrepareCalls == 3
\* constants.Hosting.BACKEND_POLL_TIMEOUT / FRONTEND_POLL_TIMEOUT /
\* WEB_AUTH_TIMEOUT: attempt counts of the loops, scaled down
BACKEND_POLL_TIMEOUT == 3
FRONTEND_POLL_TIMEOUT == 3
WEB_AUTH_TIMEOUT == 3

----------------------------------------------------------------------------
(* Values *)

\* deployment keys; "" is the empty string / None (both falsy in Python)
Keys == {"", "k1", "k2"}
Urls == {"", "u1"}
Prefixes == {"", "p1", "p2"}
AppNames == {"", "app"}
RegionLists == {<< >>, <<"r1">>}
RegionInputs == {"", "sjc"}

\* one deployment as the control plane describes it
Deployments == [key : Keys, api_url : Urls, deploy_url : Urls]

\* what follows the first element of an `existing` list
TailSamples == {[key |-> "k2", api_url |-> "u1", deploy_url |-> "u1"],
                [key |-> "k1", api_url |-> "", deploy_url |-> "u1"]}

\* an optional deployment: << >> is None, <<d>> is d
Optional == {<< >>} \cup {<<d>> : d \in Deployments}

ExistingLists ==
    {<<d>> : d \in Deployments} \cup
    {<<d, e>> : d \in Deployments, e \in TailSamples}

\* the response of hosting.prepare_deploy: at most one branch populated
PrepareResponses ==
    [app_prefix : Prefixes, reply : Optional \ {<< >>},
     existing : {<< >>}, suggestion : {<< >>}]
    \cup
    [app_prefix : Prefixes, reply : {<< >>},
     existing : ExistingLists, suggestion : {<< >>}]
    \cup
    [app_prefix : Prefixes, reply : {<< >>},
     existing : {<< >>}, suggestion : Optional]

\* strings that the env checks read character by character are sequences
\* of characters: letter "A", "b", underscore, digit "1", "=", "-", newline
Letters == {"A", "b", "_"}
Digits == {"1"}
NL == "\n"

E_valid == <<"A", "=", "v">>                \* A=v
E_empty_value == <<"_", "1", "=">>          \* _1=   (empty value)
E_digit_first == <<"1", "A", "=", "v">>     \* 1A=v  (name starts with a digit)
E_bad_char == <<"A", "-", "b", "=", "v">>   \* A-b=v (bad character in the name)
E_empty_name == <<"=", "v">>                \* =v    (empty name)
E_no_separator == <<"A", "b">>              \* Ab    (no separator)
E_two_separators == <<"A", "=", "b", "=", "v">>  \* A=b=v
E_newline == <<"A", NL, "=", "v">>          \* A\n=v (name ends with a newline)

EnvEntrySamples ==
    { E_valid, E_empty_value, E_digit_first, E_bad_char, E_empty_name,
      E_no_separator, E_two_separators, E_newline, << >> }

\* the --env options of the command line
EnvLists ==
    {<< >>} \cup {<<e>> : e \in EnvEntrySamples}
    \cup {<<E_valid, E_digit_first>>, <<E_valid, E_two_separators>>}

\* answers to the prompts of lines 564 and 574
EnvNameInputs == { << >>, <<"A">>, <<"1", "A">>, <<"A", "=", "b">> }
EnvValueInputs == { << >>, <<"v">> }

----------------------------------------------------------------------------
(* Pure helpers of deploy *)

\* Python truthiness of an optional object / of a list
Truthy(opt) == opt # << >>

\* index of the first "=" of s, 0 when there is none
RECURSIVE FirstEq(_, _)
FirstEq(s, i) ==
    IF i > Len(s) THEN 0
    ELSE IF s[i] = "=" THEN i
    ELSE FirstEq(s, i + 1)

\* env.split("=", maxsplit=1), line 588
Split(entry) ==
    LET i == FirstEq(entry, 1)
    IN  IF i = 0 THEN << entry >>
        ELSE << SubSeq(entry, 1, i - 1), SubSeq(entry, i + 1, Len(entry)) >>

\* s is [a-zA-Z_][a-zA-Z0-9_]* from its first to its last character
FullNameMatch(s) ==
    /\ Len(s) >= 1
    /\ s[1] \in Letters
    /\ \A i \in 2..Len(s) : s[i] \in Letters \cup Digits

\* re.match(r"^[a-zA-Z_][a-zA-Z0-9_]*$", s), line 592: Python's "$" matches at
\* the end of the string and also just before one trailing newline
NameMatch(s) ==
    \/ FullNameMatch(s)
    \/ /\ Len(s) >= 2
       /\ s[Len(s)] = NL
       /\ FullNameMatch(SubSeq(s, 1, Len(s) - 1))

\* d[k] = v on a dict
DictSet(d, k, v) ==
    [n \in DOMAIN d \cup {k} |-> IF n = k THEN v ELSE d[n]]

EmptyDict == << >>

\* the loop of lines 587-597 from entry i on: the error it stops with, or
\* the dict it builds
RECURSIVE ProcessFrom(_, _, _)
ProcessFrom(es, i, acc) ==
    IF i > Len(es) THEN [err |-> "", dict |-> acc]
    ELSE LET kv == Split(es[i])
         IN  IF Len(kv) # 2 THEN [err |-> "bad_env_format", dict |-> acc]
             ELSE IF ~NameMatch(kv[1])
                  THEN [err |-> "bad_env_name", dict |-> acc]
             ELSE ProcessFrom(es, i + 1, DictSet(acc, kv[1], kv[2]))

\* lines 583-597: processed_envs stays None (here the empty dict) when envs
\* is empty
ProcessEnvList(es) ==
    IF es = << >> THEN [err |-> "", dict |-> EmptyDict]
    ELSE ProcessFrom(es, 1, EmptyDict)

\* f"{env_key}={env_value}", line 575
FormatEnv(k, v) == k \o <<"=">> \o v

\* MissingRequired without the test of api_url
MissingRequiredButUrl(k, rs, an, ap, au) ==
    k = "" \/ rs = << >> \/ an = "" \/ ap = ""

\* the test of line 579
MissingRequired(k, rs, an, ap, au) ==
    k = "" \/ rs = << >> \/ an = "" \/ ap = "" \/ au = ""

\* the test of line 545
NoSuitableKey(kc, au, du) == kc = "" \/ au = "" \/ du = ""


\* the arguments of hosting.deploy that the negotiation decides, lines 616-629
UploadArgs(k, an, rs, ap, pe) ==
    [made |-> TRUE, key |-> k, app_name |-> an, regions |-> rs,
     app_prefix |-> ap, envs |-> pe]

NoUpload == [made |-> FALSE, key |-> "", app_name |-> "", regions |-> << >>,
             app_prefix |-> "", envs |-> EmptyDict]

\* which branch of a prepare-deploy response is populated
KindOf(r) ==
    IF Truthy(r.reply) THEN "reply"
    ELSE IF Truthy(r.existing) THEN "existing"
    ELSE IF Truthy(r.suggestion) THEN "suggestion"
    ELSE "none"

----------------------------------------------------------------------------
(* deploy, lines 417-681 *)

\* raise typer.Exit(1) after console.error(msg)
Fail(msg) ==
    /\ pc' = "exited"
    /\ exit_code' = 1
    /\ printed' = printed \cup {msg}

\* an exception no handler of deploy catches: Python prints the traceback and
\* the process ends with status 1
Crash ==
    /\ pc' = "exited"
    /\ exit_code' = 1
    /\ printed' = printed \cup {"traceback"}

DeployInit ==
    /\ interactive \in BOOLEAN
    /\ key \in {"", "k1"}
    /\ app_name \in AppNames
    /\ regions \in RegionLists
    /\ envs \in EnvLists
    /\ pc = "start"
    /\ app_prefix = ""
    /\ overwrite_existing = FALSE
    /\ key_candidate = ""
    /\ api_url = ""
    /\ deploy_url = ""
    /\ processed_envs = EmptyDict
    /\ backend_up = FALSE
    /\ frontend_up = FALSE
    /\ prepare_calls = 0
    /\ upload_calls = 0
    /\ upload_args = NoUpload
    /\ backend_polls = 0
    /\ frontend_polls = 0
    /\ cleanup_calls = 0
    /\ drain_waits = 0
    /\ printed = {}
    /\ exit_code = -1
    /\ first_kind = ""
    /\ suggested_key = ""
    /\ first_input = ""
    /\ first_confirm = "none"
    /\ entered_names = << >>
    /\ backend_first_up = 0
    /\ frontend_first_up = 0
    /\ cleanup_raised = FALSE
    /\ first_reply = << >>
    /\ first_existing = << >>
    /\ first_app_prefix = ""
    /\ confirmed_key = ""

\* KeyRequired with the negation of `interactive` dropped
KeyRequiredWhenInteractive(inter, k) == inter /\ k = ""

\* line 470: a deployment key is required when not interactive
KeyRequired(inter, k) == ~inter /\ k = ""

\* lines 466-472: the feature gate, then the check of the key
DeployStart ==
    /\ pc = "start"
    /\ \E enabled \in BOOLEAN :
        IF ~enabled
        THEN /\ pc' = "disabled"
             /\ exit_code' = 0
             /\ UNCHANGED printed
        ELSE IF KeyRequired(interactive, key)
        THEN Fail("key_required")
        ELSE /\ pc' = "requirements"
             /\ UNCHANGED << exit_code, printed >>
    /\ UNCHANGED << interactive, key, app_name, regions, envs, app_prefix,
                    overwrite_existing, key_candidate, api_url, deploy_url,
                    processed_envs, backend_up, frontend_up, prepare_calls,
                    upload_calls, upload_args, backend_polls, frontend_polls,
                    cleanup_calls, drain_waits, first_kind, suggested_key,
                    first_input, first_confirm, entered_names >>
    /\ UNCHANGED << backend_first_up, frontend_first_up >>
    /\ UNCHANGED << cleanup_raised, first_reply, first_existing, confirmed_key >>
    /\ UNCHANGED first_app_prefix
    /\ UNCHANGED << loginVars, runVars >>

\* lines 474-482: requirements.txt must exist, the app must be initialized
CheckRequirements ==
    /\ pc = "requirements"
    /\ \E ok \in BOOLEAN :
        IF ok
        THEN /\ pc' = "prepare"
             /\ UNCHANGED << exit_code, printed >>
        ELSE Fail("requirements_missing")
    /\ UNCHANGED << interactive, key, app_name, regions, envs, app_prefix,
                    overwrite_existing, key_candidate, api_url, deploy_url,
                    processed_envs, backend_up, frontend_up, prepare_calls,
                    upload_calls, upload_args, backend_polls, frontend_polls,
                    cleanup_calls, drain_waits, first_kind, suggested_key,
                    first_input, first_confirm, entered_names >>
    /\ UNCHANGED << backend_first_up, frontend_first_up >>
    /\ UNCHANGED << cleanup_raised, first_reply, first_existing, confirmed_key >>
    /\ UNCHANGED first_app_prefix
    /\ UNCHANGED << loginVars, runVars >>

\* Interpret without the branch of lines 495-501: the first response is read
\* the interactive way whatever the mode
InterpretModeBlind(inter, r) ==
    IF Truthy(r.reply)
    THEN [next |-> "key_check", kc |-> r.reply[1].key,
          au |-> r.reply[1].api_url, du |-> r.reply[1].deploy_url,
          ow |-> FALSE]
    ELSE IF Truthy(r.existing)
         THEN [next |-> "key_check", kc |-> r.existing[1].key,
               au |-> r.existing[1].api_url,
               du |-> r.existing[1].deploy_url, ow |-> TRUE]
    ELSE IF Truthy(r.suggestion)
         THEN [next |-> "ask_name", kc |-> r.suggestion[1].key,
               au |-> r.suggestion[1].api_url,
               du |-> r.suggestion[1].deploy_url, ow |-> FALSE]
    ELSE [next |-> "key_check", kc |-> "", au |-> "", du |-> "", ow |-> FALSE]

\* Interpret taking the last prior deployment, not the first, at lines
\* 511-514
InterpretLastExisting(inter, r) ==
    IF ~inter
    THEN IF ~Truthy(r.reply)
         THEN [next |-> "fail", kc |-> "", au |-> "", du |-> "", ow |-> FALSE]
         ELSE [next |-> "check_params", kc |-> "",
               au |-> r.reply[1].api_url, du |-> r.reply[1].deploy_url,
               ow |-> FALSE]
    ELSE IF Truthy(r.reply)
         THEN [next |-> "key_check", kc |-> r.reply[1].key,
               au |-> r.reply[1].api_url, du |-> r.reply[1].deploy_url,
               ow |-> FALSE]
    ELSE IF Truthy(r.existing)
         THEN [next |-> "key_check", kc |-> r.existing[Len(r.existing)].key,
               au |-> r.existing[Len(r.existing)].api_url,
               du |-> r.existing[Len(r.existing)].deploy_url, ow |-> TRUE]
    ELSE IF Truthy(r.suggestion)
         THEN [next |-> "ask_name", kc |-> r.suggestion[1].key,
               au |-> r.suggestion[1].api_url,
               du |-> r.suggestion[1].deploy_url, ow |-> FALSE]
    ELSE [next |-> "key_check", kc |-> "", au |-> "", du |-> "", ow |-> FALSE]

\* lines 495-520: what the first response makes of key_candidate, api_url,
\* deploy_url and overwrite_existing, and where the command goes next
\* ("fail": line 499)
Interpret(inter, r) ==
    IF ~inter
    THEN IF ~Truthy(r.reply)
         THEN [next |-> "fail", kc |-> "", au |-> "", du |-> "", ow |-> FALSE]
         ELSE [next |-> "check_params", kc |-> "",
               au |-> r.reply[1].api_url, du |-> r.reply[1].deploy_url,
               ow |-> FALSE]
    ELSE IF Truthy(r.reply)
         THEN [next |-> "key_check", kc |-> r.reply[1].key,
               au |-> r.reply[1].api_url, du |-> r.reply[1].deploy_url,
               ow |-> FALSE]
    ELSE IF Truthy(r.existing)
         THEN [next |-> "key_check", kc |-> r.existing[1].key,
               au |-> r.existing[1].api_url,
               du |-> r.existing[1].deploy_url, ow |-> TRUE]
    ELSE IF Truthy(r.suggestion)
         THEN [next |-> "ask_name", kc |-> r.suggestion[1].key,
               au |-> r.suggestion[1].api_url,
               du |-> r.suggestion[1].deploy_url, ow |-> FALSE]
    ELSE [next |-> "key_check", kc |-> "", au |-> "", du |-> "", ow |-> FALSE]

\* lines 484-520: the first prepare-deploy call and the branch on its reply
PrepareDeploy ==
    /\ pc = "prepare"
    /\ prepare_calls' = prepare_calls + 1
    /\ \/ \* hosting.prepare_deploy raises, lines 488-490
          /\ Fail("prepare_failed")
          /\ UNCHANGED << app_prefix, overwrite_existing, key_candidate,
                          api_url, deploy_url, first_kind, suggested_key,
                          first_reply, first_existing, first_app_prefix >>
       \/ \E r \in PrepareResponses :
            LET i == Interpret(interactive, r)
            IN  /\ app_prefix' = r.app_prefix
                /\ first_kind' = KindOf(r)
                /\ first_app_prefix' = r.app_prefix
                /\ first_reply' = r.reply
                /\ first_existing' =
                     IF Truthy(r.existing) THEN << r.existing[1] >>
                     ELSE << >>
                /\ suggested_key' =
                     IF KindOf(r) = "suggestion" THEN r.suggestion[1].key
                     ELSE ""
                /\ IF i.next = "fail"
                   THEN /\ Fail("cannot_deploy_at_name")
                        /\ UNCHANGED << overwrite_existing, key_candidate,
                                        api_url, deploy_url >>
                   ELSE /\ pc' = i.next
                        /\ key_candidate' = i.kc
                        /\ api_url' = i.au
                        /\ deploy_url' = i.du
                        /\ overwrite_existing' = i.ow
                        /\ printed' = IF i.ow
                                      THEN printed \cup {"overwrite_notice"}
                                      ELSE printed
                        /\ UNCHANGED exit_code
    /\ UNCHANGED << interactive, key, app_name, regions, envs,
                    processed_envs, backend_up, frontend_up,
                    upload_calls, upload_args, backend_polls, frontend_polls,
                    cleanup_calls, drain_waits,
                    first_input, first_confirm, entered_names >>
    /\ UNCHANGED << backend_first_up, frontend_first_up >>
    /\ UNCHANGED << cleanup_raised, confirmed_key >>
    /\ UNCHANGED << loginVars, runVars >>

\* Confirms without the assert of line 533
ConfirmsAnyReply(r, key_input) == Truthy(r.reply)

\* lines 532-533: the response confirms the requested name
Confirms(r, key_input) ==
    /\ Truthy(r.reply)
    /\ r.reply[1].key = key_input

\* the confirming call can raise, and it can answer with a response that
\* fails an assert of lines 532-533
CanFail(key_input) ==
    \E raises \in BOOLEAN :
        raises \/ \E r \in PrepareResponses : ~Confirms(r, key_input)

\* the ways the confirming call of lines 526-533 fails: the call raises, the
\* response carries no reply (assert of line 532), the reply names another
\* key than the one asked for (assert of line 533)
FailureKinds == {"raises", "no_reply", "other_key"}

\* replies that name another key than the one asked for
OtherReplies(key_input) == {d \in Deployments : d.key # key_input}

\* CandidateAfterFailure with the assignments of lines 534-536 made before
\* the asserts
CandidateAssignedFirst(kind, candidate, other) ==
    IF kind = "other_key" THEN other ELSE candidate

\* lines 532-542: the candidate after a failed attempt: both asserts come
\* before the assignments of lines 534-536, so it is the candidate as it was
CandidateAfterFailure(kind, candidate, other) == candidate

\* PrefixAfterConfirm taking the app_prefix of the confirming response
PrefixOfLastResponse(ap, r) == r.app_prefix

\* lines 493, 526-536: the confirming response replaces
\* pre_deploy_response, but app_prefix is not assigned again
PrefixAfterConfirm(ap, r) == ap

\* lines 523-542: one round of the naming loop: the prompt, and for a
\* non-empty answer the confirming prepare-deploy call
AskName ==
    /\ pc = "ask_name"
    /\ \E key_input \in Keys :
        IF key_input = ""
        THEN \* the while condition is falsy: the loop ends
             /\ pc' = "key_check"
             /\ UNCHANGED << key_candidate, api_url, deploy_url, printed,
                             prepare_calls, first_input, first_confirm,
                             confirmed_key, app_prefix >>
        ELSE /\ prepare_calls < MaxPrepareCalls
             /\ prepare_calls' = prepare_calls + 1
             /\ first_input' =
                  IF first_confirm = "none" THEN key_input ELSE first_input
             /\ \/ \* the call raises, or an assert fails on its response:
                   \* lines 539-542
                   /\ CanFail(key_input) = TRUE
                   /\ \E kind \in FailureKinds,
                         other \in OtherReplies(key_input) :
                        LET c == CandidateAfterFailure(
                                     kind,
                                     [key |-> key_candidate,
                                      api_url |-> api_url,
                                      deploy_url |-> deploy_url],
                                     other)
                        IN  /\ key_candidate' = c.key
                            /\ api_url' = c.api_url
                            /\ deploy_url' = c.deploy_url
                   /\ printed' = printed \cup {"retry_name"}
                   /\ first_confirm' =
                        IF first_confirm = "none" THEN "failed"
                        ELSE first_confirm
                   /\ UNCHANGED << pc, confirmed_key, app_prefix >>
                \/ \E r \in PrepareResponses :
                     /\ Confirms(r, key_input)
                     /\ confirmed_key' = key_input
                     /\ app_prefix' = PrefixAfterConfirm(app_prefix, r)
                     /\ key_candidate' = r.reply[1].key
                     /\ api_url' = r.reply[1].api_url
                     /\ deploy_url' = r.reply[1].deploy_url
                     /\ first_confirm' =
                          IF first_confirm = "none" THEN "ok"
                          ELSE first_confirm
                     /\ pc' = "key_check"
                     /\ UNCHANGED printed
    /\ UNCHANGED << interactive, key, app_name, regions, envs,
                    overwrite_existing, processed_envs, backend_up,
                    frontend_up, upload_calls, upload_args, backend_polls,
                    frontend_polls, cleanup_calls, drain_waits, exit_code,
                    first_kind, suggested_key, entered_names >>
    /\ UNCHANGED << backend_first_up, frontend_first_up >>
    /\ UNCHANGED << cleanup_raised, first_reply, first_existing >>
    /\ UNCHANGED first_app_prefix
    /\ UNCHANGED << loginVars, runVars >>

\* lines 544-550: the candidate becomes the key
KeyCheck ==
    /\ pc = "key_check"
    /\ IF NoSuitableKey(key_candidate, api_url, deploy_url)
       THEN /\ Fail("no_suitable_key")
            /\ UNCHANGED key
       ELSE /\ key' = key_candidate
            /\ pc' = "ask_region"
            /\ UNCHANGED << exit_code, printed >>
    /\ UNCHANGED << interactive, app_name, regions, envs, app_prefix,
                    overwrite_existing, key_candidate, api_url, deploy_url,
                    processed_envs, backend_up, frontend_up, prepare_calls,
                    upload_calls, upload_args, backend_polls, frontend_polls,
                    cleanup_calls, drain_waits, first_kind, suggested_key,
                    first_input, first_confirm, entered_names >>
    /\ UNCHANGED << backend_first_up, frontend_first_up >>
    /\ UNCHANGED << cleanup_raised, first_reply, first_existing, confirmed_key >>
    /\ UNCHANGED first_app_prefix
    /\ UNCHANGED << loginVars, runVars >>

\* line 557: regions = regions or [region_input]
RegionsOr(rs, region_input) == IF rs # << >> THEN rs ELSE << region_input >>

\* lines 554-557
AskRegion ==
    /\ pc = "ask_region"
    /\ \E region_input \in RegionInputs :
         regions' = RegionsOr(regions, region_input)
    /\ pc' = "ask_env"
    /\ UNCHANGED << interactive, key, app_name, envs, app_prefix,
                    overwrite_existing, key_candidate, api_url, deploy_url,
                    processed_envs, backend_up, frontend_up, prepare_calls,
                    upload_calls, upload_args, backend_polls, frontend_polls,
                    cleanup_calls, drain_waits, printed, exit_code,
                    first_kind, suggested_key, first_input, first_confirm,
                    entered_names >>
    /\ UNCHANGED << backend_first_up, frontend_first_up >>
    /\ UNCHANGED << cleanup_raised, first_reply, first_existing, confirmed_key >>
    /\ UNCHANGED first_app_prefix
    /\ UNCHANGED << loginVars, runVars >>

\* lines 563-575: one round of the env prompt
AskEnv ==
    /\ pc = "ask_env"
    /\ \E env_key \in EnvNameInputs :
        IF env_key = << >>
        THEN /\ pc' = "check_params"
             /\ UNCHANGED << envs, entered_names >>
        ELSE /\ Len(envs) < MaxEnvs
             /\ \E env_value \in EnvValueInputs :
                  envs' = Append(envs, FormatEnv(env_key, env_value))
             /\ entered_names' = Append(entered_names, env_key)
             /\ UNCHANGED pc
    /\ UNCHANGED << interactive, key, app_name, regions, app_prefix,
                    overwrite_existing, key_candidate, api_url, deploy_url,
                    processed_envs, backend_up, frontend_up, prepare_calls,
                    upload_calls, upload_args, backend_polls, frontend_polls,
                    cleanup_calls, drain_waits, printed, exit_code,
                    first_kind, suggested_key, first_input, first_confirm >>
    /\ UNCHANGED << backend_first_up, frontend_first_up >>
    /\ UNCHANGED << cleanup_raised, first_reply, first_existing, confirmed_key >>
    /\ UNCHANGED first_app_prefix
    /\ UNCHANGED << loginVars, runVars >>

\* lines 577-581
CheckParams ==
    /\ pc = "check_params"
    /\ IF MissingRequired(key, regions, app_name, app_prefix, api_url)
       THEN Fail("missing_params")
       ELSE /\ pc' = "process_envs"
            /\ UNCHANGED << exit_code, printed >>
    /\ UNCHANGED << interactive, key, app_name, regions, envs, app_prefix,
                    overwrite_existing, key_candidate, api_url, deploy_url,
                    processed_envs, backend_up, frontend_up, prepare_calls,
                    upload_calls, upload_args, backend_polls, frontend_polls,
                    cleanup_calls, drain_waits, first_kind, suggested_key,
                    first_input, first_confirm, entered_names >>
    /\ UNCHANGED << backend_first_up, frontend_first_up >>
    /\ UNCHANGED << cleanup_raised, first_reply, first_existing, confirmed_key >>
    /\ UNCHANGED first_app_prefix
    /\ UNCHANGED << loginVars, runVars >>

\* lines 583-597
ProcessEnvs ==
    /\ pc = "process_envs"
    /\ LET res == ProcessEnvList(envs)
       IN  IF res.err # ""
           THEN /\ Fail(res.err)
                /\ UNCHANGED processed_envs
           ELSE /\ processed_envs' = res.dict
                /\ pc' = "export"
                /\ UNCHANGED << exit_code, printed >>
    /\ UNCHANGED << interactive, key, app_name, regions, envs, app_prefix,
                    overwrite_existing, key_candidate, api_url, deploy_url,
                    backend_up, frontend_up, prepare_calls,
                    upload_calls, upload_args, backend_polls, frontend_polls,
                    cleanup_calls, drain_waits, first_kind, suggested_key,
                    first_input, first_confirm, entered_names >>
    /\ UNCHANGED << backend_first_up, frontend_first_up >>
    /\ UNCHANGED << cleanup_raised, first_reply, first_existing, confirmed_key >>
    /\ UNCHANGED first_app_prefix
    /\ UNCHANGED << loginVars, runVars >>

\* lines 599-611: the production export; an ImportError ends the command
Export ==
    /\ pc = "export"
    /\ \E ok \in BOOLEAN :
        IF ok
        THEN /\ pc' = "upload"
             /\ UNCHANGED << exit_code, printed >>
        ELSE Fail("import_error")
    /\ UNCHANGED << interactive, key, app_name, regions, envs, app_prefix,
                    overwrite_existing, key_candidate, api_url, deploy_url,
                    processed_envs, backend_up, frontend_up, prepare_calls,
                    upload_calls, upload_args, backend_polls, frontend_polls,
                    cleanup_calls, drain_waits, first_kind, suggested_key,
                    first_input, first_confirm, entered_names >>
    /\ UNCHANGED << backend_first_up, frontend_first_up >>
    /\ UNCHANGED << cleanup_raised, first_reply, first_existing, confirmed_key >>
    /\ UNCHANGED first_app_prefix
    /\ UNCHANGED << loginVars, runVars >>

\* AfterUpload without the exit of lines 630-635: a failed upload goes on
\* like a successful one
AfterUploadNoExit(ok, overwrite) ==
    IF overwrite THEN "drain" ELSE "poll_backend"

\* AfterUpload without the wait of lines 643-647: the polling starts at once
AfterUploadNoDrain(ok, overwrite) ==
    IF ~ok THEN "cleanup_failed_upload" ELSE "poll_backend"

\* lines 630-648: where the command goes after the upload call: to the
\* cleanup and exit 1 when it failed, else to the drain wait (overwrite) or
\* straight to the polling
AfterUpload(ok, overwrite) ==
    IF ~ok THEN "cleanup_failed_upload"
    ELSE IF overwrite THEN "drain" ELSE "poll_backend"

\* lines 613-629 and 637-648: the upload call; on success the command goes on
\* to the drain wait (overwrite) or to the polling
Upload ==
    /\ pc = "upload"
    /\ upload_calls' = upload_calls + 1
    /\ upload_args' =
         UploadArgs(key, app_name, regions, app_prefix, processed_envs)
    /\ \E ok \in BOOLEAN :
        /\ pc' = AfterUpload(ok, overwrite_existing)
        /\ printed' = printed \cup
             {IF ok THEN "deployment_will_start"
              ELSE \* lines 630-631
                   "upload_failed"}
    /\ UNCHANGED << interactive, key, app_name, regions, envs, app_prefix,
                    overwrite_existing, key_candidate, api_url, deploy_url,
                    processed_envs, backend_up, frontend_up, prepare_calls,
                    backend_polls, frontend_polls, cleanup_calls,
                    drain_waits, exit_code, first_kind, suggested_key,
                    first_input, first_confirm, entered_names >>
    /\ UNCHANGED << backend_first_up, frontend_first_up >>
    /\ UNCHANGED << cleanup_raised, first_reply, first_existing, confirmed_key >>
    /\ UNCHANGED first_app_prefix
    /\ UNCHANGED << loginVars, runVars >>

\* lines 632-635: cleanup after a failed upload; contextlib.suppress swallows
\* what hosting.clean_up raises, then the command exits with 1
CleanUpFailedUpload ==
    /\ pc = "cleanup_failed_upload"
    /\ cleanup_calls' = cleanup_calls + 1
    /\ \E raises \in BOOLEAN :
         /\ cleanup_raised' = (cleanup_raised \/ raises)
         /\ pc' = "exited"
         /\ exit_code' = 1
    /\ UNCHANGED << interactive, key, app_name, regions, envs, app_prefix,
                    overwrite_existing, key_candidate, api_url, deploy_url,
                    processed_envs, backend_up, frontend_up, prepare_calls,
                    upload_calls, upload_args, backend_polls, frontend_polls,
                    drain_waits, printed, first_kind, suggested_key,
                    first_input, first_confirm, entered_names >>
    /\ UNCHANGED << backend_first_up, frontend_first_up >>
    /\ UNCHANGED << first_reply, first_existing, confirmed_key >>
    /\ UNCHANGED first_app_prefix
    /\ UNCHANGED << loginVars, runVars >>

\* lines 643-647: the fixed wait for the old deployment to come down
Drain ==
    /\ pc = "drain"
    /\ drain_waits' = drain_waits + 1
    /\ pc' = "poll_backend"
    /\ UNCHANGED << interactive, key, app_name, regions, envs, app_prefix,
                    overwrite_existing, key_candidate, api_url, deploy_url,
                    processed_envs, backend_up, frontend_up, prepare_calls,
                    upload_calls, upload_args, backend_polls, frontend_polls,
                    cleanup_calls, printed, exit_code, first_kind,
                    suggested_key, first_input, first_confirm,
                    entered_names >>
    /\ UNCHANGED << backend_first_up, frontend_first_up >>
    /\ UNCHANGED << cleanup_raised, first_reply, first_existing, confirmed_key >>
    /\ UNCHANGED first_app_prefix
    /\ UNCHANGED << loginVars, runVars >>

\* outcomes of one iteration of a poll loop: the status call answers up or
\* down, or the iteration ends with an exception (raised by the call, or by
\* an interrupt of the one-second sleep), for which lines 652-666 have no
\* handler
PollOutcomes == {"up", "down", "error"}

\* LoopOver for a loop without a budget: only success ends it
LoopOverOnSuccess(up, done, budget) == up

\* a for loop over range(budget) with a break on success, lines 653-656 and
\* 663-666: after `done` iterations the loop is over
LoopOver(up, done, budget) == up \/ done >= budget

\* AfterBackend giving up on the frontend when the backend never came up
AfterBackendUpOnly(up) == IF up THEN "poll_frontend" ELSE "cleanup"

\* lines 656-662: the backend loop is over (break, or attempts used up):
\* the frontend loop comes next, whatever backend_up is
AfterBackend(up) == "poll_frontend"

\* lines 652-660: one iteration of the backend loop
PollBackend ==
    /\ pc = "poll_backend"
    /\ backend_polls' = backend_polls + 1
    /\ \E res \in PollOutcomes :
        IF res = "error"
        THEN /\ Crash
             /\ UNCHANGED << backend_up, backend_first_up >>
        ELSE /\ backend_up' = (res = "up")
             /\ backend_first_up' =
                  IF res = "up" /\ backend_first_up = 0
                  THEN backend_polls + 1 ELSE backend_first_up
             /\ UNCHANGED exit_code
             /\ IF LoopOver(res = "up", backend_polls + 1,
                            BACKEND_POLL_TIMEOUT)
                THEN /\ pc' = AfterBackend(res = "up")
                     /\ printed' = printed \cup
                          {IF res = "up" THEN "backend_up"
                           ELSE "backend_unreachable"}
                ELSE UNCHANGED << pc, printed >>
    /\ UNCHANGED << interactive, key, app_name, regions, envs, app_prefix,
                    overwrite_existing, key_candidate, api_url, deploy_url,
                    processed_envs, frontend_up, prepare_calls,
                    upload_calls, upload_args, frontend_polls, cleanup_calls,
                    drain_waits, first_kind, suggested_key,
                    first_input, first_confirm, entered_names >>
    /\ UNCHANGED frontend_first_up
    /\ UNCHANGED << cleanup_raised, first_reply, first_existing, confirmed_key >>
    /\ UNCHANGED first_app_prefix
    /\ UNCHANGED << loginVars, runVars >>

\* lines 662-670: one iteration of the frontend loop
PollFrontend ==
    /\ pc = "poll_frontend"
    /\ frontend_polls' = frontend_polls + 1
    /\ \E res \in PollOutcomes :
        IF res = "error"
        THEN /\ Crash
             /\ UNCHANGED << frontend_up, frontend_first_up >>
        ELSE /\ frontend_up' = (res = "up")
             /\ frontend_first_up' =
                  IF res = "up" /\ frontend_first_up = 0
                  THEN frontend_polls + 1 ELSE frontend_first_up
             /\ UNCHANGED exit_code
             /\ IF LoopOver(res = "up", frontend_polls + 1,
                            FRONTEND_POLL_TIMEOUT)
                THEN /\ pc' = "cleanup"
                     /\ printed' = printed \cup
                          {IF res = "up" THEN "frontend_up"
                           ELSE "frontend_unreachable"}
                ELSE UNCHANGED << pc, printed >>
    /\ UNCHANGED << interactive, key, app_name, regions, envs, app_prefix,
                    overwrite_existing, key_candidate, api_url, deploy_url,
                    processed_envs, backend_up, prepare_calls,
                    upload_calls, upload_args, backend_polls, cleanup_calls,
                    drain_waits, first_kind, suggested_key,
                    first_input, first_confirm, entered_names >>
    /\ UNCHANGED backend_first_up
    /\ UNCHANGED << cleanup_raised, first_reply, first_existing, confirmed_key >>
    /\ UNCHANGED first_app_prefix
    /\ UNCHANGED << loginVars, runVars >>

\* lines 672-681: the cleanup call at the end, then the report; nothing
\* catches what this hosting.clean_up raises
CleanUp ==
    /\ pc = "cleanup"
    /\ cleanup_calls' = cleanup_calls + 1
    /\ \E raises \in BOOLEAN :
        IF raises
        THEN /\ Crash
             /\ cleanup_raised' = TRUE
        ELSE /\ pc' = "exited"
             /\ exit_code' = 0
             /\ UNCHANGED cleanup_raised
             /\ printed' = printed \cup
                  {IF frontend_up /\ backend_up THEN "site_is_up"
                   ELSE "check_back_later"}
    /\ UNCHANGED << interactive, key, app_name, regions, envs, app_prefix,
                    overwrite_existing, key_candidate, api_url, deploy_url,
                    processed_envs, backend_up, frontend_up, prepare_calls,
                    upload_calls, upload_args, backend_polls, frontend_polls,
                    drain_waits, first_kind, suggested_key,
                    first_input, first_confirm, entered_names >>
    /\ UNCHANGED << backend_first_up, frontend_first_up >>
    /\ UNCHANGED << first_reply, first_existing, confirmed_key >>
    /\ UNCHANGED first_app_prefix
    /\ UNCHANGED << loginVars, runVars >>

----------------------------------------------------------------------------
(* login, lines 265-334 *)

Tokens == {"t1", "t2"}
Codes == {"c1", "c2"}

\* raise typer.Exit(1) after console.error(msg)
LoginFail(msg) ==
    /\ lpc' = "exited"
    /\ lexit' = 1
    /\ lprinted' = lprinted \cup {msg}

LoginInit ==
    /\ lpc = "start"
    /\ token = ""
    /\ code = ""
    /\ using_existing_token = FALSE
    /\ token_valid = FALSE
    /\ config_token \in {""} \cup Tokens
    /\ browser_opens = 0
    /\ fetch_calls = 0
    /\ validate_calls = 0
    /\ save_calls = 0
    /\ delete_calls = 0
    /\ lprinted = {}
    /\ lexit = -1
    /\ initial_config_token = config_token

\* HasExistingToken that never finds the persisted token
NeverExistingToken(cfg) == FALSE

\* hosting.get_existing_access_token, line 284: the token of the local
\* config, an exception when there is none
HasExistingToken(cfg) == cfg # ""

\* lines 275-296: the feature gate, the look for a persisted token, and
\* without one the browser
LoginStart ==
    /\ lpc = "start"
    /\ \E enabled \in BOOLEAN, opened \in BOOLEAN, c \in Codes :
        IF ~enabled
        THEN /\ lpc' = "disabled"
             /\ lexit' = 0
             /\ UNCHANGED << token, code, using_existing_token,
                             browser_opens, lprinted >>
        ELSE IF HasExistingToken(config_token)
        THEN /\ token' = config_token
             /\ code' = c
             /\ using_existing_token' = TRUE
             /\ lpc' = "validate"
             /\ UNCHANGED << browser_opens, lprinted, lexit >>
        ELSE /\ browser_opens' = browser_opens + 1
             /\ UNCHANGED << token, code, using_existing_token >>
             /\ IF opened
                THEN /\ lpc' = "fetch"
                     /\ UNCHANGED << lprinted, lexit >>
                ELSE LoginFail("browser_failed")
    /\ UNCHANGED << token_valid, config_token, fetch_calls, validate_calls,
                    save_calls, delete_calls >>
    /\ UNCHANGED initial_config_token
    /\ UNCHANGED << deployVars, runVars >>

\* lines 298-304: one attempt of the fetch loop; an exception is swallowed,
\* a returned pair ends the loop
FetchToken ==
    /\ lpc = "fetch"
    /\ fetch_calls' = fetch_calls + 1
    /\ \/ \* hosting.fetch_token raises
          /\ lpc' = IF LoopOver(FALSE, fetch_calls + 1, WEB_AUTH_TIMEOUT)
                    THEN "check_token" ELSE "fetch"
          /\ UNCHANGED << token, code >>
       \/ \E t \in {""} \cup Tokens, c \in Codes :
          /\ token' = t
          /\ code' = c
          /\ lpc' = "check_token"
    /\ UNCHANGED << using_existing_token, token_valid, config_token,
                    browser_opens, validate_calls, save_calls, delete_calls,
                    lprinted, lexit >>
    /\ UNCHANGED initial_config_token
    /\ UNCHANGED << deployVars, runVars >>

\* TokenMissing that never finds the token missing
TokenNeverMissing(t) == FALSE

\* line 306: `if not token`
TokenMissing(t) == t = ""

\* lines 306-310
CheckToken ==
    /\ lpc = "check_token"
    /\ IF TokenMissing(token)
       THEN LoginFail("unable_to_fetch_token")
       ELSE /\ lpc' = "validate"
            /\ UNCHANGED << lprinted, lexit >>
    /\ UNCHANGED << token, code, using_existing_token, token_valid,
                    config_token, browser_opens, fetch_calls, validate_calls,
                    save_calls, delete_calls >>
    /\ UNCHANGED initial_config_token
    /\ UNCHANGED << deployVars, runVars >>

\* outcomes of hosting.validate_token: it returns, raises ValueError (the
\* token is invalid), or raises another exception
ValidateOutcomes == {"valid", "invalid", "error"}

\* ConfigAfterDelete that leaves the token in the config
ConfigKept(cfg) == cfg

\* hosting.delete_token_from_config, line 321: the local config afterwards
ConfigAfterDelete(cfg) == ""

\* lines 312-325: one attempt of the validation loop
ValidateToken ==
    /\ lpc = "validate"
    /\ validate_calls' = validate_calls + 1
    /\ \E res \in ValidateOutcomes :
        CASE res = "valid" ->
               /\ token_valid' = TRUE
               /\ lpc' = "finish"
               /\ UNCHANGED << config_token, delete_calls, lprinted, lexit >>
          [] res = "invalid" ->
               /\ LoginFail("access_denied")
               /\ config_token' = ConfigAfterDelete(config_token)
               /\ delete_calls' = delete_calls + 1
               /\ UNCHANGED token_valid
          [] OTHER ->
               /\ lpc' = IF LoopOver(FALSE, validate_calls + 1,
                                     WEB_AUTH_TIMEOUT)
                         THEN "finish" ELSE "validate"
               /\ UNCHANGED << token_valid, config_token, delete_calls,
                               lprinted, lexit >>
    /\ UNCHANGED << token, code, using_existing_token, browser_opens,
                    fetch_calls, save_calls >>
    /\ UNCHANGED initial_config_token
    /\ UNCHANGED << deployVars, runVars >>

\* ShouldSave that saves a reused token too
AlwaysSave(existing) == TRUE

\* line 330: only a token that was not reused is saved
ShouldSave(existing) == ~existing

\* lines 326-334
Finish ==
    /\ lpc = "finish"
    /\ IF ~token_valid
       THEN /\ LoginFail("unable_to_validate")
            /\ UNCHANGED << config_token, save_calls >>
       ELSE /\ lpc' = "exited"
            /\ lexit' = 0
            /\ IF ShouldSave(using_existing_token)
               THEN /\ config_token' = token
                    /\ save_calls' = save_calls + 1
                    /\ lprinted' = lprinted \cup {"logged_in"}
               ELSE /\ lprinted' = lprinted \cup {"already_logged_in"}
                    /\ UNCHANGED << config_token, save_calls >>
    /\ UNCHANGED << token, code, using_existing_token, token_valid,
                    browser_opens, fetch_calls, validate_calls,
                    delete_calls >>
    /\ UNCHANGED initial_config_token
    /\ UNCHANGED << deployVars, runVars >>

LoginNext ==
    \/ LoginStart
    \/ FetchToken
    \/ CheckToken
    \/ ValidateToken
    \/ Finish

----------------------------------------------------------------------------
(* run, lines 116-216 *)

Roles == {"frontend", "backend"}
\* port options as the command holds them: strings
Ports == {"3000", "3001", "8000"}
\* constants.Env.DEV, constants.Env.PROD
Envs == {"dev", "prod"}

\* a role no process was started for
NoChild == [status |-> "none", port |-> "", terminations |-> 0]
NoMain == [status |-> "none", port |-> ""]

\* the concurrently launched processes that are running
Running(ch) == {r \in Roles : ch[r].status = "running"}

\* the processes of `targets` are terminated
Terminate(ch, targets) ==
    [r \in Roles |->
        IF r \in targets
        THEN [ch[r] EXCEPT !.status = "terminated",
                           !.terminations = @ + 1]
        ELSE ch[r]]

\* any failure of run: the exception leaves the command with status 1; the
\* registered exit hook (line 198) still runs
RunFail ==
    /\ rpc' = IF hook_registered THEN "at_exit" ELSE "exited"
    /\ run_exit' = 1

RunInit ==
    /\ rpc = "start"
    /\ env \in Envs
    /\ frontend \in BOOLEAN
    /\ backend \in BOOLEAN
    /\ frontend_port \in {"3000", "3001"}
    /\ backend_port \in {"8000", "3000"}
    /\ config_frontend_port = "3000"
    /\ config_backend_port = "8000"
    /\ occupied \in SUBSET {"3000", "8000"}
    /\ skip_compile = FALSE
    /\ hook_registered = FALSE
    /\ commands = << >>
    /\ children = [r \in Roles |-> NoChild]
    /\ main = NoMain
    /\ started = << >>
    /\ shutdown_msgs = 0
    /\ interrupted = FALSE
    /\ run_exit = -1
    /\ requested_ports = [frontend |-> frontend_port, backend |-> backend_port]
    /\ configured_ports = [frontend |-> config_frontend_port,
                           backend |-> config_backend_port]
    /\ port_checks = [r \in Roles |-> "unchecked"]
    /\ negotiator_calls = {}
    /\ persist_writes = {}
    /\ option_flags = [frontend |-> frontend, backend |-> backend]

\* lines 145-148: neither --frontend-only nor --backend-only selects both
Selected(f, b) ==
    IF ~f /\ ~b THEN [frontend |-> TRUE, backend |-> TRUE]
    ELSE [frontend |-> f, backend |-> b]

\* lines 145-154: the selection, the skip-compile flag, the check that the
\* app is initialized
RunStart ==
    /\ rpc = "start"
    /\ frontend' = Selected(frontend, backend).frontend
    /\ backend' = Selected(frontend, backend).backend
    /\ skip_compile' = (~frontend' /\ backend')
    /\ \E initialized \in BOOLEAN :
        IF initialized
        THEN rpc' = "check_frontend_port" /\ UNCHANGED run_exit
        ELSE RunFail
    /\ UNCHANGED << env, frontend_port, backend_port, config_frontend_port,
                    config_backend_port, occupied, hook_registered, commands,
                    children, main, started, shutdown_msgs, interrupted,
                    requested_ports, configured_ports, port_checks,
                    negotiator_calls, persist_writes >>
    /\ UNCHANGED option_flags
    /\ UNCHANGED << deployVars, loginVars >>

\* NeedsNegotiation without the role test of lines 157 and 160
NeedsNegotiationAnyRole(selected, port, occ) == port \in occ

\* lines 157, 160: the negotiator is called for a selected role whose port
\* something is running on
NeedsNegotiation(selected, port, occ) == selected /\ port \in occ

\* lines 158, 161: what processes.change_or_terminate_port can answer: the
\* same port, its occupant terminated, or another port that is free
Resolutions(port, occ) ==
    {[port |-> port, occupied |-> occ \ {port}]} \cup
    {[port |-> p, occupied |-> occ] : p \in Ports \ occ}

\* lines 157-158: the frontend port
CheckFrontendPort ==
    /\ rpc = "check_frontend_port"
    /\ IF NeedsNegotiation(frontend, frontend_port, occupied)
       THEN /\ negotiator_calls' = negotiator_calls \cup {"frontend"}
            /\ \E res \in Resolutions(frontend_port, occupied) :
                /\ frontend_port' = res.port
                /\ occupied' = res.occupied
       ELSE UNCHANGED << negotiator_calls, frontend_port, occupied >>
    /\ port_checks' =
         [port_checks EXCEPT !["frontend"] =
             IF frontend_port \in occupied THEN "occupied" ELSE "free"]
    /\ rpc' = "check_backend_port"
    /\ UNCHANGED << env, frontend, backend, backend_port,
                    config_frontend_port, config_backend_port, skip_compile,
                    hook_registered, commands, children, main, started,
                    shutdown_msgs, interrupted, run_exit, requested_ports,
                    configured_ports, persist_writes >>
    /\ UNCHANGED option_flags
    /\ UNCHANGED << deployVars, loginVars >>

\* lines 160-161: the backend port
CheckBackendPort ==
    /\ rpc = "check_backend_port"
    /\ IF NeedsNegotiation(backend, backend_port, occupied)
       THEN /\ negotiator_calls' = negotiator_calls \cup {"backend"}
            /\ \E res \in Resolutions(backend_port, occupied) :
                /\ backend_port' = res.port
                /\ occupied' = res.occupied
       ELSE UNCHANGED << negotiator_calls, backend_port, occupied >>
    /\ port_checks' =
         [port_checks EXCEPT !["backend"] =
             IF backend_port \in occupied THEN "occupied" ELSE "free"]
    /\ rpc' = "apply_ports"
    /\ UNCHANGED << env, frontend, backend, frontend_port,
                    config_frontend_port, config_backend_port, skip_compile,
                    hook_registered, commands, children, main, started,
                    shutdown_msgs, interrupted, run_exit, requested_ports,
                    configured_ports, persist_writes >>
    /\ UNCHANGED option_flags
    /\ UNCHANGED << deployVars, loginVars >>

\* lines 164, 166: the port differs from str() of the configured one
ShouldPersist(port, configured) == port # configured

\* lines 163-167: the ports are written to the persistent config
ApplyPorts ==
    /\ rpc = "apply_ports"
    /\ config_frontend_port' =
         IF ShouldPersist(frontend_port, config_frontend_port)
         THEN frontend_port ELSE config_frontend_port
    /\ config_backend_port' =
         IF ShouldPersist(backend_port, config_backend_port)
         THEN backend_port ELSE config_backend_port
    /\ persist_writes' =
         {r \in {"frontend"} :
             ShouldPersist(frontend_port, config_frontend_port)} \cup
         {r \in {"backend"} :
             ShouldPersist(backend_port, config_backend_port)}
    /\ rpc' = "prepare"
    /\ UNCHANGED << env, frontend, backend, frontend_port, backend_port,
                    occupied, skip_compile, hook_registered, commands,
                    children, main, started, shutdown_msgs, interrupted,
                    run_exit, requested_ports, configured_ports, port_checks,
                    negotiator_calls >>
    /\ UNCHANGED option_flags
    /\ UNCHANGED << deployVars, loginVars >>

\* lines 169-198: the app module is loaded when the frontend is selected
\* (this can raise), the commands of the environment are chosen, and the
\* exit hook is registered
PrepareRun ==
    /\ rpc = "prepare"
    /\ \E loaded \in BOOLEAN :
        IF loaded \/ ~frontend
        THEN /\ hook_registered' = TRUE
             /\ rpc' = "build"
             /\ UNCHANGED run_exit
        ELSE /\ RunFail
             /\ UNCHANGED hook_registered
    /\ UNCHANGED << env, frontend, backend, frontend_port, backend_port,
                    config_frontend_port, config_backend_port, occupied,
                    skip_compile, commands, children, main, started,
                    shutdown_msgs, interrupted, requested_ports,
                    configured_ports, port_checks, negotiator_calls,
                    persist_writes >>
    /\ UNCHANGED option_flags
    /\ UNCHANGED << deployVars, loginVars >>

\* Commands with the backend launched as a process in every environment
CommandsBackendAlways(f, b, e, fp, bp) ==
    (IF f THEN << [role |-> "frontend", port |-> fp] >> ELSE << >>) \o
    (IF b THEN << [role |-> "backend", port |-> bp] >> ELSE << >>)

\* lines 201-210: the commands to run concurrently: the frontend when it is
\* selected, then the backend when it is selected and env is prod
Commands(f, b, e, fp, bp) ==
    (IF f THEN << [role |-> "frontend", port |-> fp] >> ELSE << >>) \o
    (IF b /\ e = "prod" THEN << [role |-> "backend", port |-> bp] >>
     ELSE << >>)

\* lines 201-210: the frontend is set up (this can raise) and the list of
\* commands is built
BuildCommands ==
    /\ rpc = "build"
    /\ \E set_up \in BOOLEAN :
        IF set_up \/ ~frontend
        THEN /\ commands' = Commands(frontend, backend, env, frontend_port,
                                     backend_port)
             /\ rpc' = "launch"
             /\ UNCHANGED run_exit
        ELSE /\ RunFail
             /\ UNCHANGED commands
    /\ UNCHANGED << env, frontend, backend, frontend_port, backend_port,
                    config_frontend_port, config_backend_port, occupied,
                    skip_compile, hook_registered, children, main, started,
                    shutdown_msgs, interrupted, requested_ports,
                    configured_ports, port_checks, negotiator_calls,
                    persist_writes >>
    /\ UNCHANGED option_flags
    /\ UNCHANGED << deployVars, loginVars >>

\* the supervisor of line 213 (processes.run_concurrently_context), as its
\* contract describes it: the commands are launched in order as independent
\* processes; one that fails to start is reported, the rest is not
\* launched and the started ones are torn down
Launch ==
    /\ rpc = "launch"
    /\ Len(started) < Len(commands)
    /\ LET c == commands[Len(started) + 1]
       IN  \E ok \in BOOLEAN :
            IF ok
            THEN /\ children' =
                      [children EXCEPT ![c.role] =
                          [status |-> "running", port |-> c.port,
                           terminations |-> 0]]
                 /\ started' = Append(started, c.role)
                 /\ UNCHANGED << rpc, run_exit >>
            ELSE /\ children' = Terminate(children, Running(children))
                 /\ rpc' = "at_exit"
                 /\ run_exit' = 1
                 /\ UNCHANGED started
    /\ UNCHANGED << env, frontend, backend, frontend_port, backend_port,
                    config_frontend_port, config_backend_port, occupied,
                    skip_compile, hook_registered, commands, main,
                    shutdown_msgs, interrupted, requested_ports,
                    configured_ports, port_checks, negotiator_calls,
                    persist_writes >>
    /\ UNCHANGED option_flags
    /\ UNCHANGED << deployVars, loginVars >>

\* lines 214-216: inside the supervisor's scope, the backend runs on the
\* calling thread when it is selected and env is dev
HasForeground(b, e) == b /\ e = "dev"

\* lines 213-216: every command is launched; the body of the `with` runs
StartForeground ==
    /\ rpc = "launch"
    /\ Len(started) = Len(commands)
    /\ IF HasForeground(backend, env)
       THEN /\ main' = [status |-> "running", port |-> backend_port]
            /\ started' = Append(started, "main")
       ELSE UNCHANGED << main, started >>
    /\ rpc' = "supervise"
    /\ UNCHANGED << env, frontend, backend, frontend_port, backend_port,
                    config_frontend_port, config_backend_port, occupied,
                    skip_compile, hook_registered, commands, children,
                    shutdown_msgs, interrupted, run_exit, requested_ports,
                    configured_ports, port_checks, negotiator_calls,
                    persist_writes >>
    /\ UNCHANGED option_flags
    /\ UNCHANGED << deployVars, loginVars >>

\* the calling-thread command returns: the supervisor's scope ends and the
\* group is shut down
ForegroundReturns ==
    /\ rpc = "supervise"
    /\ main.status = "running"
    /\ main' = [main EXCEPT !.status = "returned"]
    /\ children' = Terminate(children, Running(children))
    /\ rpc' = "at_exit"
    /\ run_exit' = 0
    /\ UNCHANGED << env, frontend, backend, frontend_port, backend_port,
                    config_frontend_port, config_backend_port, occupied,
                    skip_compile, hook_registered, commands, started,
                    shutdown_msgs, interrupted, requested_ports,
                    configured_ports, port_checks, negotiator_calls,
                    persist_writes >>
    /\ UNCHANGED option_flags
    /\ UNCHANGED << deployVars, loginVars >>

\* the processes the supervisor terminates on an interrupt: the launched
\* ones, which are all running
InterruptTargets(ch) == Running(ch)

\* the user interrupts run while the supervisor is in charge: every launched
\* process is terminated, the shutting-down status is printed, and the
\* interrupt is passed on
Interrupt ==
    /\ rpc \in {"launch", "supervise"}
    /\ interrupted' = TRUE
    /\ shutdown_msgs' = shutdown_msgs + 1
    /\ children' = Terminate(children, InterruptTargets(children))
    /\ main' = IF main.status = "running"
               THEN [main EXCEPT !.status = "interrupted"] ELSE main
    /\ rpc' = "at_exit"
    /\ run_exit' = 130
    /\ UNCHANGED << env, frontend, backend, frontend_port, backend_port,
                    config_frontend_port, config_backend_port, occupied,
                    skip_compile, hook_registered, commands, started,
                    requested_ports, configured_ports, port_checks,
                    negotiator_calls, persist_writes >>
    /\ UNCHANGED option_flags
    /\ UNCHANGED << deployVars, loginVars >>

\* HookTargets cleaning up every process that was launched, terminated or
\* not
HookTargetsLaunched(ch) == {r \in Roles : ch[r].status # "none"}

\* the processes the exit hook still has to clean up: those left running
HookTargets(ch) == Running(ch)

\* line 198: the hook registered with atexit runs as the interpreter exits
ExitHook ==
    /\ rpc = "at_exit"
    /\ children' = IF hook_registered
                   THEN Terminate(children, HookTargets(children))
                   ELSE children
    /\ rpc' = "exited"
    /\ UNCHANGED << env, frontend, backend, frontend_port, backend_port,
                    config_frontend_port, config_backend_port, occupied,
                    skip_compile, hook_registered, commands, main, started,
                    shutdown_msgs, interrupted, run_exit, requested_ports,
                    configured_ports, port_checks, negotiator_calls,
                    persist_writes >>
    /\ UNCHANGED option_flags
    /\ UNCHANGED << deployVars, loginVars >>

RunNext ==
    \/ RunStart
    \/ CheckFrontendPort
    \/ CheckBackendPort
    \/ ApplyPorts
    \/ PrepareRun
    \/ BuildCommands
    \/ Launch
    \/ StartForeground
    \/ ForegroundReturns
    \/ Interrupt
    \/ ExitHook

RunIdle ==
    /\ rpc = "idle"
    /\ env = "dev"
    /\ frontend = FALSE
    /\ backend = FALSE
    /\ frontend_port = "3000"
    /\ backend_port = "8000"
    /\ config_frontend_port = "3000"
    /\ config_backend_port = "8000"
    /\ occupied = {}
    /\ skip_compile = FALSE
    /\ hook_registered = FALSE
    /\ commands = << >>
    /\ children = [r \in Roles |-> NoChild]
    /\ main = NoMain
    /\ started = << >>
    /\ shutdown_msgs = 0
    /\ interrupted = FALSE
    /\ run_exit = -1
    /\ requested_ports = [frontend |-> frontend_port, backend |-> backend_port]
    /\ configured_ports = [frontend |-> config_frontend_port,
                           backend |-> config_backend_port]
    /\ port_checks = [r \in Roles |-> "unchecked"]
    /\ negotiator_calls = {}
    /\ persist_writes = {}
    /\ option_flags = [frontend |-> frontend, backend |-> backend]

\* the command is not running
LoginIdle ==
    /\ lpc = "idle"
    /\ token = ""
    /\ code = ""
    /\ using_existing_token = FALSE
    /\ token_valid = FALSE
    /\ config_token = ""
    /\ browser_opens = 0
    /\ fetch_calls = 0
    /\ validate_calls = 0
    /\ save_calls = 0
    /\ delete_calls = 0
    /\ lprinted = {}
    /\ lexit = -1
    /\ initial_config_token = config_token

DeployIdle ==
    /\ interactive = FALSE
    /\ key = ""
    /\ app_name = ""
    /\ regions = << >>
    /\ envs = << >>
    /\ pc = "idle"
    /\ app_prefix = ""
    /\ overwrite_existing = FALSE
    /\ key_candidate = ""
    /\ api_url = ""
    /\ deploy_url = ""
    /\ processed_envs = EmptyDict
    /\ backend_up = FALSE
    /\ frontend_up = FALSE
    /\ prepare_calls = 0
    /\ upload_calls = 0
    /\ upload_args = NoUpload
    /\ backend_polls = 0
    /\ frontend_polls = 0
    /\ cleanup_calls = 0
    /\ drain_waits = 0
    /\ printed = {}
    /\ exit_code = -1
    /\ first_kind = ""
    /\ suggested_key = ""
    /\ first_input = ""
    /\ first_confirm = "none"
    /\ entered_names = << >>
    /\ backend_first_up = 0
    /\ frontend_first_up = 0
    /\ cleanup_raised = FALSE
    /\ first_reply = << >>
    /\ first_existing = << >>
    /\ first_app_prefix = ""
    /\ confirmed_key = ""

DeployNext ==
    \/ DeployStart
    \/ CheckRequirements
    \/ PrepareDeploy
    \/ AskName
    \/ KeyCheck
    \/ AskRegion
    \/ AskEnv
    \/ CheckParams
    \/ ProcessEnvs
    \/ Export
    \/ Upload
    \/ CleanUpFailedUpload
    \/ Drain
    \/ PollBackend
    \/ PollFrontend
    \/ CleanUp

InitDeploy == DeployInit /\ LoginIdle /\ RunIdle

SpecDeploy == InitDeploy /\ [][DeployNext]_vars

InitLogin == DeployIdle /\ LoginInit /\ RunIdle

SpecLogin == InitLogin /\ [][LoginNext]_vars

InitRun == DeployIdle /\ LoginIdle /\ RunInit

SpecRun == InitRun /\ [][RunNext]_vars

\* deploy or login is invoked, and the invoked command keeps running: each
\* is sequential code whose calls and sleeps return. The options of deploy
\* that the polling does not read (app name, regions, --env) are given
InitTermination ==
    \/ InitDeploy /\ app_name = "app" /\ regions = <<"r1">> /\ envs = << >>
    \/ InitLogin

TerminationNext == DeployNext \/ LoginNext

SpecTermination ==
    InitTermination /\ [][TerminationNext]_vars /\ WF_vars(TerminationNext)

----------------------------------------------------------------------------
(* Properties *)

\* every call deploy made to the hosting service
NetworkCalls ==
    prepare_calls + upload_calls + backend_polls + frontend_polls
    + cleanup_calls

\* C1: deploy in non-interactive mode without a deployment key (past the
\* hosting feature gate) ends at once with exit code 1 and the message asking
\* for a key, and no prepare-deploy, upload, poll or cleanup call is made.
C1_NoKeyFailsWithoutNetwork ==
    (~interactive /\ key = "" /\ pc # "idle") =>
        /\ NetworkCalls = 0
        /\ pc \in {"start", "disabled", "exited"}
        /\ pc = "exited" => (exit_code = 1 /\ printed = {"key_required"})

C1_Witness ==
    /\ pc = "exited"
    /\ ~interactive
    /\ key = ""
    /\ exit_code = 1
    /\ "key_required" \in printed

\* the negotiation is DONE: the check of line 579 has passed
PastParamCheck ==
    \/ pc \in {"process_envs", "export", "upload", "cleanup_failed_upload",
               "drain", "poll_backend", "poll_frontend", "cleanup"}
    \/ upload_calls > 0

\* C2: in both modes and for every prepare-deploy reply and operator input,
\* deploy never gets past the parameter check (to export and upload) with an
\* empty key, an empty region list or an empty api_url.
C2_DoneHasKeyRegionsUrl ==
    PastParamCheck => (key # "" /\ regions # << >> /\ api_url # "")

C2_Witness ==
    /\ pc = "export"
    /\ interactive
    /\ first_kind = "suggestion"
    /\ key # ""
    /\ regions = <<"sjc">>

\* an entry of the command line names what precedes its first "="
BadEntry(e) ==
    LET kv == Split(e)
    IN  Len(kv) # 2 \/ ~NameMatch(kv[1])

\* C3: if an environment entry has no "=" separator, or the name of an entry
\* (for an entry of the prompt: the name the operator entered) does not match
\* ^[A-Za-z_][A-Za-z0-9_]*$, the upload call is never made and deploy ends
\* with exit code 1.
C3_BadEnvNeverUploaded ==
    ( \/ \E i \in 1..Len(envs) : BadEntry(envs[i])
      \/ \E i \in 1..Len(entered_names) : ~NameMatch(entered_names[i]) )
    => (upload_calls = 0 /\ (pc = "exited" => exit_code = 1))

\* the first reply was a Suggestion and the operator's first answer is the
\* suggested key
AcceptedSuggestion ==
    /\ interactive
    /\ first_kind = "suggestion"
    /\ first_input # ""
    /\ first_input = suggested_key

\* C4 as stated: after a Suggestion that the operator accepts unmodified,
\* KEY_CONFIRMED (line 550) is reached with exactly two prepare-deploy calls.
C4_TwoCallsWhenAccepted ==
    (pc = "ask_region" /\ AcceptedSuggestion) => prepare_calls = 2

\* C4 (amended): after a Suggestion that the operator accepts unmodified and
\* whose confirming call returns a Reply for that key, KEY_CONFIRMED is
\* reached with exactly two prepare-deploy calls and with the suggested key.
C4_TwoCallsWhenAcceptedAndConfirmed ==
    (pc = "ask_region" /\ AcceptedSuggestion /\ first_confirm = "ok") =>
        (prepare_calls = 2 /\ key = suggested_key)

C4_Witness ==
    /\ pc = "ask_region"
    /\ AcceptedSuggestion
    /\ first_confirm = "ok"
    /\ prepare_calls = 2
    /\ key = "k1"

\* C5: when the backend first answers up on attempt i and the frontend on
\* attempt j, deploy makes exactly i backend polls and j frontend polls, both
\* within their budgets, and reports overall success.
C5_PollCountsAndSuccess ==
    (pc = "exited" /\ backend_first_up > 0 /\ frontend_first_up > 0) =>
        /\ backend_polls = backend_first_up
        /\ frontend_polls = frontend_first_up
        /\ backend_polls <= BACKEND_POLL_TIMEOUT
        /\ frontend_polls <= FRONTEND_POLL_TIMEOUT
        /\ "site_is_up" \in printed

\* the fetch loop is over and gave no token
FetchGaveNoToken ==
    /\ ~using_existing_token
    /\ fetch_calls > 0
    /\ lpc \notin {"fetch", "check_token"}
    /\ token = ""

\* C6: with no persisted token, when the fetch attempts yield no token login
\* ends with exit code 1 and the "unable to fetch access token" message,
\* without a validation call and without a token saved to the config.
C6_NoTokenFetched ==
    FetchGaveNoToken =>
        /\ lpc = "exited"
        /\ lexit = 1
        /\ "unable_to_fetch_token" \in lprinted
        /\ fetch_calls <= WEB_AUTH_TIMEOUT
        /\ validate_calls = 0
        /\ save_calls = 0
        /\ config_token = ""

C6_Witness ==
    /\ FetchGaveNoToken
    /\ fetch_calls = WEB_AUTH_TIMEOUT
    /\ initial_config_token = ""
    /\ lexit = 1

\* C7: an "invalid" answer of the validation ends login at once: the token
\* is deleted from the config, the exit code is 1 and no validation attempt
\* follows; any other error is retried, at most WEB_AUTH_TIMEOUT attempts in
\* all, and login gives up (exit code 1) only when they are used up.
C7_InvalidIsTerminal ==
    /\ "access_denied" \in lprinted =>
          /\ lpc = "exited"
          /\ lexit = 1
          /\ config_token = ""
          /\ delete_calls = 1
    /\ validate_calls <= WEB_AUTH_TIMEOUT
    /\ lpc = "validate" => validate_calls < WEB_AUTH_TIMEOUT
    /\ (lpc = "finish" /\ ~token_valid) => validate_calls = WEB_AUTH_TIMEOUT
    /\ "unable_to_validate" \in lprinted =>
          /\ lpc = "exited"
          /\ lexit = 1
          /\ validate_calls = WEB_AUTH_TIMEOUT
    /\ (lexit = 1 /\ validate_calls > 0) =>
          \/ "access_denied" \in lprinted
          \/ "unable_to_validate" \in lprinted

C7_Witness ==
    /\ "access_denied" \in lprinted
    /\ initial_config_token # ""
    /\ config_token = ""
    /\ validate_calls = 2
    /\ lexit = 1

\* C8: a token is saved to the config exactly when it was fetched (not
\* reused) and a validation of it succeeded; a reused token that validates
\* leaves the config as it was and gets the "already logged in" notice; no
\* path that ends with exit code 1 saves a token.
C8_SavedIffFreshAndValid ==
    /\ save_calls \in {0, 1}
    /\ save_calls = 1 =>
          /\ ~using_existing_token
          /\ token_valid
          /\ token # ""
          /\ config_token = token
          /\ "logged_in" \in lprinted
    /\ (lpc = "exited" /\ lexit = 0 /\ ~using_existing_token) =>
          (token_valid /\ save_calls = 1)
    /\ (lpc = "exited" /\ lexit = 0 /\ using_existing_token) =>
          /\ token_valid
          /\ save_calls = 0
          /\ config_token = initial_config_token
          /\ "already_logged_in" \in lprinted
    /\ lexit = 1 => save_calls = 0

C8_Witness ==
    /\ lpc = "exited"
    /\ lexit = 0
    /\ save_calls = 1
    /\ initial_config_token = ""
    /\ config_token = token

\* C9: with a token persisted in the local config, login never opens the
\* browser and never calls the token-fetch endpoint: it goes straight to the
\* validation of that token.
C9_PersistedTokenSkipsBrowser ==
    initial_config_token # "" =>
        /\ browser_opens = 0
        /\ fetch_calls = 0
        /\ lpc \in {"start", "disabled", "validate", "finish", "exited"}
        /\ lpc \notin {"start", "disabled"} =>
              (using_existing_token /\ token = initial_config_token)
        /\ (lpc \notin {"start", "disabled"} /\ validate_calls = 0) =>
              lpc = "validate"

C9_Witness ==
    /\ initial_config_token # ""
    /\ lpc = "validate"
    /\ validate_calls = 0
    /\ using_existing_token

\* C10: every run of deploy that made the upload call makes the cleanup call
\* before it ends, also when a poll loop ends with an error.
C10_CleanupAfterUpload ==
    (pc = "exited" /\ upload_calls > 0) => cleanup_calls > 0

----------------------------------------------------------------------------
(* Properties of deploy: cleanup, required fields, report, upload *)

\* C11: a hosting.clean_up call that raises is swallowed on every path of
\* deploy: the command still exits 1 after a failed upload, still prints the
\* success message when both sides are up, and still prints the
\* check-back-later warning (exit status 0) otherwise
C11_CleanupFailureSwallowed ==
    (pc = "exited" /\ cleanup_raised) =>
        IF "upload_failed" \in printed
        THEN exit_code = 1 /\ "traceback" \notin printed
        ELSE IF backend_up /\ frontend_up
             THEN "site_is_up" \in printed /\ exit_code = 0
             ELSE "check_back_later" \in printed /\ exit_code = 0

\* C12: in both modes an upload is made only with key, api_url, deploy_url
\* and app_prefix all non-empty, and a run whose negotiation left key,
\* api_url or deploy_url empty ends with exit status 1 and no upload
C12_UploadNeedsAllFields ==
    /\ upload_calls > 0 =>
         key # "" /\ api_url # "" /\ deploy_url # "" /\ app_prefix # ""
    /\ (pc = "exited" /\ prepare_calls > 0
          /\ (key = "" \/ api_url = "" \/ deploy_url = "")) =>
         exit_code = 1 /\ upload_calls = 0

\* both polling loops have run to their end
PollingDone == {"frontend_up", "frontend_unreachable"} \cap printed # {}

\* C13: after the polling, the success message is printed exactly when
\* backend and frontend are both up, each side's reachability is reported
\* on its own, and with one side or none up the command ends without exit
\* status 1 after printing the check-back-later guidance
C13_ReportAfterPolling ==
    (pc = "exited" /\ PollingDone) =>
        /\ ("site_is_up" \in printed) <=> (backend_up /\ frontend_up)
        /\ ("backend_up" \in printed) <=> backend_up
        /\ ("backend_unreachable" \in printed) <=> ~backend_up
        /\ ("frontend_up" \in printed) <=> frontend_up
        /\ ("frontend_unreachable" \in printed) <=> ~frontend_up
        /\ ~(backend_up /\ frontend_up) =>
             exit_code # 1 /\ "check_back_later" \in printed

\* deploy is at, or has been through, one of its prompts after the first
\* response
Prompted ==
    \/ pc \in {"key_check", "ask_name", "ask_region", "ask_env"}
    \/ entered_names # << >>
    \/ first_input # ""

\* C14: without the interactive mode, a first response that carries no reply
\* ends the command with exit status 1 and no upload; with a reply, the
\* upload is made under the key the caller gave, api_url and deploy_url are
\* the reply's, and the operator is never prompted
C14_NonInteractiveUsesCallerKey ==
    (~interactive /\ first_kind # "") =>
        /\ ~Prompted
        /\ prepare_calls = 1
        /\ ~Truthy(first_reply) =>
             pc = "exited" /\ exit_code = 1 /\ upload_calls = 0
        /\ Truthy(first_reply) =>
             /\ api_url = first_reply[1].api_url
             /\ deploy_url = first_reply[1].deploy_url
             /\ upload_calls > 0 => upload_args.key = key /\ key # ""

\* a non-interactive run uploaded under the caller's key, which is not the
\* key the reply names
C14_Witness ==
    /\ ~interactive
    /\ upload_calls = 1
    /\ upload_args.key = "k1"
    /\ first_reply # << >>
    /\ first_reply[1].key = "k2"
    /\ api_url = first_reply[1].api_url

\* C15: hosting.deploy is called at most once, and once it has failed the
\* command reports the error, polls neither side and exits with status 1
C15_UploadFailureIsFinal ==
    /\ upload_calls <= 1
    /\ "upload_failed" \in printed =>
         /\ upload_calls = 1
         /\ backend_polls = 0 /\ frontend_polls = 0 /\ drain_waits = 0
         /\ pc \in {"cleanup_failed_upload", "exited"}
         /\ pc = "exited" => exit_code = 1

\* the upload failed and the command has exited
C15_Witness ==
    /\ pc = "exited"
    /\ "upload_failed" \in printed
    /\ exit_code = 1
    /\ cleanup_calls = 1

\* C18: in an interactive run whose first response was a suggestion, an
\* upload is made only under a key that a prepare-deploy call of the naming
\* loop confirmed with a reply naming the requested key
C18_UploadKeyConfirmed ==
    (interactive /\ first_kind = "suggestion" /\ upload_calls > 0) =>
        confirmed_key # "" /\ upload_args.key = confirmed_key

\* the backend loop has run to its end
BackendLoopEnded == {"backend_up", "backend_unreachable"} \cap printed # {}

\* C19: the frontend is polled only once the backend loop has ended, and
\* it is polled then whether or not the backend came up
C19_FrontendAfterBackend ==
    /\ frontend_polls > 0 => BackendLoopEnded /\ pc # "poll_backend"
    /\ pc = "poll_backend" => frontend_polls = 0 /\ ~BackendLoopEnded
    /\ (BackendLoopEnded /\ pc # "poll_frontend") => frontend_polls > 0

\* the frontend was polled although the backend never came up
C19_Witness ==
    /\ frontend_polls > 0
    /\ ~backend_up
    /\ backend_polls = BACKEND_POLL_TIMEOUT

\* C20: an interactive run whose first response lists prior deployments
\* takes key, api_url and deploy_url from the first of them and sets
\* overwrite_existing; on every other path overwrite_existing stays false
C20_OverwriteOnlyForExisting ==
    /\ overwrite_existing <=> (interactive /\ first_kind = "existing")
    /\ (interactive /\ first_kind = "existing") =>
         /\ key_candidate = first_existing[1].key
         /\ api_url = first_existing[1].api_url
         /\ deploy_url = first_existing[1].deploy_url
         /\ pc \notin {"key_check", "exited"} => key = key_candidate

\* an overwriting upload under the key of the first of two prior deployments
C20_Witness ==
    /\ interactive
    /\ first_kind = "existing"
    /\ overwrite_existing
    /\ upload_calls = 1
    /\ upload_args.key = "k1"
    /\ first_existing[1].key = "k1"
    /\ "overwrite_notice" \in printed

----------------------------------------------------------------------------
(* Properties of run *)

IsSelected(r) == IF r = "frontend" THEN frontend ELSE backend

\* the port run holds for the role
ResolvedPort(r) == IF r = "frontend" THEN frontend_port ELSE backend_port

\* str() of the port the persistent config holds for the role
ConfigPort(r) ==
    IF r = "frontend" THEN config_frontend_port ELSE config_backend_port

\* the port the role was started on ("": not started)
LaunchPort(r) ==
    IF children[r].status # "none" THEN children[r].port
    ELSE IF r = "backend" /\ main.status # "none" THEN main.port
    ELSE ""

\* C17: for a selected role whose requested port is free the negotiator is
\* not called and the role is launched on the requested port; the
\* negotiator is called only for a selected role whose port is in use; the
\* persistent config port is written only when the resolved port differs
\* from the configured one
C17_NegotiateOnlyOccupiedSelected ==
    \A r \in Roles :
        /\ (rpc # "start" /\ IsSelected(r) /\ port_checks[r] = "free") =>
             /\ r \notin negotiator_calls
             /\ ResolvedPort(r) = requested_ports[r]
             /\ LaunchPort(r) \in {"", requested_ports[r]}
        /\ r \in negotiator_calls =>
             IsSelected(r) /\ port_checks[r] = "occupied"
        /\ r \in persist_writes =>
             /\ ResolvedPort(r) # configured_ports[r]
             /\ ConfigPort(r) = ResolvedPort(r)
        /\ r \notin persist_writes => ConfigPort(r) = configured_ports[r]

\* the frontend found its port free and runs on it, the backend's port was
\* in use, the negotiator changed it and the config was rewritten
C17_Witness ==
    /\ port_checks["frontend"] = "free"
    /\ LaunchPort("frontend") = requested_ports["frontend"]
    /\ negotiator_calls = {"backend"}
    /\ LaunchPort("backend") # ""
    /\ LaunchPort("backend") # requested_ports["backend"]
    /\ persist_writes = {"backend"}

----------------------------------------------------------------------------
(* Properties: drain wait, launch order, naming loop, app prefix, termination *)

\* C21: the wait for the old deployment is made exactly when the deployment
\* overwrites an existing one; it is made once, after the upload succeeded,
\* and it is over before the first backend status poll; without overwrite
\* the polling starts with no wait
C21_DrainIffOverwrite ==
    /\ drain_waits <= 1
    /\ drain_waits = 1 =>
         /\ overwrite_existing
         /\ upload_calls = 1
         /\ "deployment_will_start" \in printed
    /\ pc = "drain" => backend_polls = 0 /\ frontend_polls = 0
    /\ backend_polls > 0 => (drain_waits = 1 <=> overwrite_existing)
    /\ ~overwrite_existing => drain_waits = 0 /\ pc # "drain"

\* an overwriting deploy waited once and then made its first backend poll
C21_Witness ==
    /\ overwrite_existing
    /\ drain_waits = 1
    /\ backend_polls = 1
    /\ upload_calls = 1

\* the role runs as a concurrently launched process
IsChild(r) == children[r].status # "none"

\* C22: every concurrently launched command is started before the command
\* of the calling thread; once all are started, the frontend is a launched
\* process exactly when it is selected, the backend is a launched process
\* exactly when it is selected and env is prod, and the backend runs on the
\* calling thread exactly when it is selected and env is dev; neither
\* --frontend-only nor --backend-only selects both; and the exit hook is
\* registered before the first start
C22_LaunchOrderAndSelection ==
    /\ started # << >> => hook_registered
    /\ \A i \in 1..Len(started) :
          /\ started[i] = "main" => i = Len(started) /\ i = Len(commands) + 1
          /\ started[i] # "main" => started[i] = commands[i].role
    /\ IsChild("frontend") => frontend
    /\ IsChild("backend") => backend /\ env = "prod"
    /\ main.status # "none" => backend /\ env = "dev"
    /\ rpc = "supervise" =>
          /\ IsChild("frontend") <=> frontend
          /\ IsChild("backend") <=> (backend /\ env = "prod")
          /\ (main.status # "none") <=> (backend /\ env = "dev")
          /\ Len(started) =
               Len(commands) + (IF main.status # "none" THEN 1 ELSE 0)
    /\ (rpc # "start" /\ ~option_flags.frontend /\ ~option_flags.backend) =>
          frontend /\ backend
    /\ (rpc # "start" /\ (option_flags.frontend \/ option_flags.backend)) =>
          frontend = option_flags.frontend /\ backend = option_flags.backend

\* run without either flag in dev: the frontend was launched as a process,
\* then the backend began on the calling thread
C22_Witness ==
    /\ option_flags = [frontend |-> FALSE, backend |-> FALSE]
    /\ env = "dev"
    /\ rpc = "supervise"
    /\ started = << "frontend", "main" >>
    /\ main.status = "running"
    /\ hook_registered

\* a round of the naming loop after which the operator is asked again
FailedAttempt == pc = "ask_name" /\ pc' = "ask_name"

\* a round of the naming loop that ends it
LoopEnds == pc = "ask_name" /\ pc' # "ask_name"

\* C23: a failed attempt of the naming loop (the confirming call raised,
\* answered without a reply, or with a reply naming another key) made one
\* prepare-deploy call, leaves key_candidate, api_url and deploy_url as they
\* were, prints the retry message and asks again; the loop ends only with a
\* reply naming the requested key, which becomes the candidate, or with an
\* empty name, which makes no call and changes nothing
C23_FailedAttemptKeepsCandidate ==
    [][ /\ FailedAttempt =>
             /\ prepare_calls' = prepare_calls + 1
             /\ UNCHANGED << key_candidate, api_url, deploy_url >>
             /\ "retry_name" \in printed'
        /\ LoopEnds =>
             /\ pc' = "key_check"
             /\ \/ /\ prepare_calls' = prepare_calls + 1
                   /\ confirmed_key' # ""
                   /\ key_candidate' = confirmed_key'
                \/ /\ prepare_calls' = prepare_calls
                   /\ UNCHANGED << key_candidate, api_url, deploy_url,
                                   confirmed_key, printed >> ]_vars

\* every attempt the bound allows has failed: the operator is asked once
\* more, and the candidate is still the suggested one
C23_Witness ==
    /\ pc = "ask_name"
    /\ prepare_calls = MaxPrepareCalls
    /\ "retry_name" \in printed
    /\ suggested_key = "k1"
    /\ key_candidate = suggested_key
    /\ first_input = "k2"

\* C24: the app_prefix given to hosting.deploy is the app_prefix of the
\* first prepare-deploy response; the confirming calls of the naming loop
\* never change it
C24_UploadUsesFirstPrefix ==
    /\ prepare_calls > 0 => app_prefix = first_app_prefix
    /\ upload_calls > 0 => upload_args.app_prefix = first_app_prefix

\* an upload under a key that a later prepare-deploy call confirmed
C24_Witness ==
    /\ upload_calls = 1
    /\ prepare_calls >= 2
    /\ confirmed_key # ""
    /\ upload_args.key = confirmed_key
    /\ upload_args.app_prefix = "p1"
    /\ first_app_prefix = "p1"

\* login has ended (behind the feature gate of line 276, or for good)
LoginEnded == lpc \in {"disabled", "exited"}

\* login ended logged in, or with exit status 1
LoggedInOrFailed ==
    \/ lexit = 1
    \/ /\ lexit = 0
       /\ token_valid
       /\ {"logged_in", "already_logged_in"} \cap lprinted # {}

\* the polling phase of deploy
Polling == pc \in {"poll_backend", "poll_frontend"}

\* C25: login always ends, after at most WEB_AUTH_TIMEOUT fetch calls
\* followed by at most WEB_AUTH_TIMEOUT validation calls, logged in or with
\* exit status 1; the polling of deploy always ends, after at most
\* BACKEND_POLL_TIMEOUT backend and FRONTEND_POLL_TIMEOUT frontend polls
C25_LoginAndPollingTerminate ==
    /\ [](/\ fetch_calls <= WEB_AUTH_TIMEOUT
          /\ validate_calls <= WEB_AUTH_TIMEOUT
          /\ lpc = "fetch" => validate_calls = 0
          /\ lpc = "exited" => LoggedInOrFailed
          /\ backend_polls <= BACKEND_POLL_TIMEOUT
          /\ frontend_polls <= FRONTEND_POLL_TIMEOUT)
    /\ (lpc = "start") ~> LoginEnded
    /\ Polling ~> ~Polling

\* login ended with every fetch attempt and every validation attempt used
C25_Witness ==
    /\ lpc = "exited"
    /\ fetch_calls = WEB_AUTH_TIMEOUT
    /\ validate_calls = WEB_AUTH_TIMEOUT

====
